---- MODULE Spec2Model ----
(***************************************************************************)
(* Delivery pipeline of the Content-Creator server: the Google token       *)
(* refresh manager (server/utils/token-manager.ts), getOAuth2Client        *)
(* (server/presentation.ts) and the rate limiting middleware               *)
(* (server/middleware/rate-limit.ts).                                      *)
(*                                                                         *)
(* Token part: time is counted in minutes (the code compares millisecond   *)
(* timestamps; only the order of timestamps and the 5 minute margin        *)
(* matter).  Node runs one task at a time: every action below is one       *)
(* synchronous run of a handler up to its next await on real I/O, and the  *)
(* continuations of callers that await a promise run (as microtasks) in    *)
(* the step that settles that promise.                                     *)
(*                                                                         *)
(* Rate limiter part: time is counted in milliseconds.                     *)
(*                                                                         *)
(* Further parts: validateImageUrl (server/utils/url-validator.ts) and     *)
(* addSlidesToPresentation (server/presentation.ts), alone and together    *)
(* with the getOAuth2Client it awaits.                                     *)
(***************************************************************************)
EXTENDS Integers, Sequences, FiniteSets, TLC

VARIABLES
    now,            \* Date.now() of the token manager's process, in minutes
    profile,        \* storage: principal -> stored profile (credential)
    held,           \* principal -> the rows storage has held for it so far
    refreshLocks,   \* token-manager.ts refreshLocks: principal -> promise id, NoLock if absent
    promises,       \* the refreshPromise objects created so far
    nextToken,      \* next access token the provider will issue
    callers,        \* caller -> its run of getOAuth2Client / refreshGoogleToken
    providerCalls,  \* principal -> calls made to oauth2Client.refreshAccessToken
    clearedLive,    \* principal -> clearRefreshLock removed the lock of a refresh in flight
    cleared,        \* clearRefreshLock has been called (a test calls it once)
    \* rate limiter
    rnow,           \* Date.now() of the rate limiter's process, in ms
    options,        \* bucket -> the RateLimitOptions its limiter was created with
    rateLimitStore, \* rate-limit.ts rateLimitStore: key -> record
    seq,            \* requests that have passed through a limiter so far
    lastReq,        \* the last request: its bucket, key and what it found
    lastRes,        \* the response to it: status, headers, body, calls of next()
    attempts,       \* bucket, key -> requests of that pair in the key's current window
    highReset,      \* key -> the largest resetTime its records have had
    admitted,       \* bucket, key -> times of the latest admissions of that pair
    unswept,        \* the store and the last response had the cleanup never run
    \* image URL validator
    urlCall,        \* a call of validateImageUrl: its arguments, position and outcome
    \* addSlidesToPresentation
    slideContents,  \* the slideContents argument
    createOptions,  \* the options argument: colorTheme, allowUntrustedImages
    ceiling,        \* MAX_REQUESTS_PER_SLIDE in force
    run             \* the call: its position, locals, calls made to the API, outcome

tokenVars == <<now, profile, held, refreshLocks, promises, nextToken, callers,
               providerCalls, clearedLive, cleared>>

rateVars == <<rnow, options, rateLimitStore, seq, lastReq, lastRes, attempts, highReset,
              admitted, unswept>>

urlVars == <<urlCall>>

slideVars == <<slideContents, createOptions, ceiling, run>>

vars == <<tokenVars, rateVars, urlVars, slideVars>>

\* what the steps of each part leave alone
nonTokenVars == <<rateVars, urlVars, slideVars>>
nonRateVars == <<tokenVars, urlVars, slideVars>>
nonUrlVars == <<tokenVars, rateVars, slideVars>>
nonSlideVars == <<tokenVars, rateVars, urlVars>>

-----------------------------------------------------------------------------
(* Bounds of the model *)

NumCallers == 2
MaxTime == 1

Callers == 1..NumCallers
Principals == {"u1", "u2"}

-----------------------------------------------------------------------------
(* Constants of the program *)

\* 5 * 60 * 1000 ms, in minutes
FiveMinutes == 5
\* lifetime of an access token issued by the provider, in minutes
TokenLifetime == 60
\* a null googleTokenExpiry
NoExpiry == -1
\* no entry in refreshLocks
NoLock == 0

-----------------------------------------------------------------------------
(* Profiles *)

Profile(at, rt, exp) == [googleAccessToken |-> at, googleRefreshToken |-> rt,
                         googleTokenExpiry |-> exp]

\* The credentials a stored profile can hold when the server starts: not
\* connected, connected without refresh token, connected with unknown expiry,
\* expiring within the margin (and expired once time has passed), fresh for
\* one more minute (and then exactly at the margin).
InitProfiles ==
    { Profile(0, 0, NoExpiry),
      Profile(1, 0, FiveMinutes + 1),
      Profile(1, 1, NoExpiry),
      Profile(1, 1, 0),
      Profile(1, 1, FiveMinutes + 1) }

NoProfile == Profile(0, 0, NoExpiry)

needsTokenRefreshStrict(tokenExpiry, t) ==
    IF tokenExpiry = NoExpiry THEN FALSE ELSE tokenExpiry < t + FiveMinutes

\* needsTokenRefresh: false for a null expiry, else expiry <= now + 5 minutes
needsTokenRefresh(tokenExpiry, t) ==
    IF tokenExpiry = NoExpiry THEN FALSE ELSE tokenExpiry <= t + FiveMinutes

\* the fields refreshGoogleToken passes to storage.updateProfile
UpdatedFieldsKeepExpiry(u, credentials) ==
    [googleAccessToken |->
        IF credentials.access_token # 0 THEN credentials.access_token
        ELSE u.googleAccessToken,
     googleTokenExpiry |-> u.googleTokenExpiry]

UpdatedFields(u, credentials) ==
    [googleAccessToken |->
        IF credentials.access_token # 0 THEN credentials.access_token
        ELSE u.googleAccessToken,
     googleTokenExpiry |->
        IF credentials.expiry_date # 0 THEN credentials.expiry_date
        ELSE u.googleTokenExpiry]

\* storage.updateProfile(id, fields): the stored row with the fields overwritten
ApplyUpdate(row, fields) ==
    [row EXCEPT !.googleAccessToken = fields.googleAccessToken,
                !.googleTokenExpiry = fields.googleTokenExpiry]

-----------------------------------------------------------------------------
(* Promises and callers *)

PromiseIds == 1..Len(promises)

Pending(id) == promises[id].state \in {"provider", "store"}

\* refreshes of principal p that have started and not settled
InFlight(p) == { id \in PromiseIds : promises[id].p = p /\ Pending(id) }

Waiters(id) == { c \in Callers : callers[c].pc = "await" /\ callers[c].prom = id }

\* callers inside getOAuth2Client for principal p
Active(p) == { c \in Callers : callers[c].pc \in {"await", "refetch"} /\ callers[c].p = p }

IdleCaller ==
    [pc |-> "idle", p |-> "u1", user |-> NoProfile, prom |-> 0, started |-> FALSE,
     callNow |-> 0, inFlight |-> 0, result |-> NoProfile,
     err |-> "none", cause |-> 0]

-----------------------------------------------------------------------------
(* Token manager: initial state *)

InitToken ==
    /\ now = 0
    /\ \E row \in InitProfiles :
         /\ profile = [p \in Principals |->
                         IF p = "u1" THEN row ELSE Profile(1, 1, 0)]
         /\ held = [p \in Principals |->
                      IF p = "u1" THEN {row} ELSE {Profile(1, 1, 0)}]
    /\ refreshLocks = [p \in Principals |-> NoLock]
    /\ promises = << >>
    /\ nextToken = 2
    /\ callers = [c \in Callers |-> IdleCaller]
    /\ providerCalls = [p \in Principals |-> 0]
    /\ clearedLive = [p \in Principals |-> FALSE]
    /\ cleared = FALSE

-----------------------------------------------------------------------------
(* What the callers awaiting a promise do when it settles *)

\* `await existingLock` / `await refreshPromise` rethrows the promise's
\* TokenRefreshError; getOAuth2Client catches it and throws TokenExpiredError
FailWaiters(id) ==
    [c \in Callers |->
        IF c \in Waiters(id)
        THEN [callers[c] EXCEPT !.pc = "failed", !.err = "TokenExpiredError", !.cause = id]
        ELSE callers[c]]

\* after the await each caller issues storage.getProfileById(user.id)
ResumeWaiters(id) ==
    [c \in Callers |->
        IF c \in Waiters(id) THEN [callers[c] EXCEPT !.pc = "refetch"] ELSE callers[c]]

\* the finally block: refreshLocks.delete(user.id)
DeleteLock(p) == [refreshLocks EXCEPT ![p] = NoLock]

-----------------------------------------------------------------------------
(* getOAuth2Client and refreshGoogleToken, up to the first await *)

\* The caller's request handler read the principal's profile from storage at
\* some earlier point of its own run and passes that object as `user`.
\* Callers enter in the order of their numbers, and one caller at most acts
\* for u2: u2 starts with a credential u1 can start with too, so a run with
\* several callers for u2 is the mirror image of a run for u1.
Entered(c, p, u) ==
    [callers[c] EXCEPT
        !.p = p, !.user = u, !.callNow = now,
        !.inFlight = IF InFlight(p) = {} THEN 0
                     ELSE CHOOSE id \in InFlight(p) : \A other \in InFlight(p) : other <= id]

CanEnter(c, p, u) ==
    /\ callers[c].pc = "idle"
    /\ \A d \in Callers : d < c => callers[d].pc # "idle"
    /\ p = "u2" => \A d \in Callers : callers[d].pc = "idle" \/ callers[d].p # "u2"
    /\ u \in held[p]

HasTokens(u) == u.googleAccessToken # 0 /\ u.googleRefreshToken # 0

\* getOAuth2Client: no access token or no refresh token -> GoogleAuthError
GetClientNoTokens(c, p, u) ==
    /\ CanEnter(c, p, u)
    /\ ~HasTokens(u)
    /\ callers' = [callers EXCEPT ![c] =
                     [Entered(c, p, u) EXCEPT !.pc = "failed", !.err = "GoogleAuthError"]]
    /\ UNCHANGED <<now, profile, held, refreshLocks, promises, nextToken, providerCalls,
                   clearedLive, cleared>>
    /\ UNCHANGED nonTokenVars

\* getOAuth2Client: needsTokenRefresh is false -> return { auth, user }
GetClientFresh(c, p, u) ==
    /\ CanEnter(c, p, u)
    /\ HasTokens(u)
    /\ ~needsTokenRefresh(u.googleTokenExpiry, now)
    /\ callers' = [callers EXCEPT ![c] =
                     [Entered(c, p, u) EXCEPT !.pc = "done", !.result = u]]
    /\ UNCHANGED <<now, profile, held, refreshLocks, promises, nextToken, providerCalls,
                   clearedLive, cleared>>
    /\ UNCHANGED nonTokenVars

NoExistingLock(p) == NoLock

ExistingLockAny(p) ==
    LET locked == { q \in Principals : refreshLocks[q] # NoLock } IN
    IF locked = {} THEN NoLock ELSE refreshLocks[CHOOSE q \in locked : TRUE]

\* refreshLocks.get(user.id)
ExistingLock(p) == refreshLocks[p]

NeedsRefresh(c, p, u) ==
    /\ CanEnter(c, p, u)
    /\ HasTokens(u)
    /\ needsTokenRefresh(u.googleTokenExpiry, now)

\* refreshGoogleToken: a lock exists -> await it, then re-fetch the profile.
\* Awaiting a lock that holds an already settled promise continues in the
\* same task.
JoinRefresh(c, p, u) ==
    /\ NeedsRefresh(c, p, u)
    /\ ExistingLock(p) # NoLock
    /\ LET id == ExistingLock(p)
           me == [Entered(c, p, u) EXCEPT !.prom = id] IN
        callers' = [callers EXCEPT ![c] =
            IF Pending(id) THEN [me EXCEPT !.pc = "await"]
            ELSE IF promises[id].state = "rejected"
            THEN [me EXCEPT !.pc = "failed", !.err = "TokenExpiredError", !.cause = id]
            ELSE [me EXCEPT !.pc = "refetch"]]
    /\ UNCHANGED <<now, profile, held, refreshLocks, promises, nextToken, providerCalls,
                   clearedLive, cleared>>
    /\ UNCHANGED nonTokenVars

NewPromise(p, u, st) ==
    [p |-> p, user |-> u, state |-> st, resp |-> "none",
     fields |-> UpdatedFields(u, [access_token |-> 0, expiry_date |-> 0]),
     startProfile |-> profile[p], endProfile |-> profile[p]]

\* refreshGoogleToken: no lock -> the async function runs up to its first
\* await, i.e. it calls oauth2Client.refreshAccessToken(); then the lock is
\* stored and the caller awaits refreshPromise
StartRefresh(c, p, u) ==
    /\ NeedsRefresh(c, p, u)
    /\ ExistingLock(p) = NoLock
    /\ promises' = Append(promises, NewPromise(p, u, "provider"))
    /\ refreshLocks' = [refreshLocks EXCEPT ![p] = Len(promises) + 1]
    /\ providerCalls' = [providerCalls EXCEPT ![p] = @ + 1]
    /\ callers' = [callers EXCEPT ![c] =
                     [Entered(c, p, u) EXCEPT !.pc = "await", !.started = TRUE,
                                              !.prom = Len(promises) + 1]]
    /\ UNCHANGED <<now, profile, held, nextToken, clearedLive, cleared>>
    /\ UNCHANGED nonTokenVars

\* as StartRefresh, but oauth2Client.refreshAccessToken() throws before it
\* returns a promise: catch and finally run at once (the delete finds no
\* lock), the async function returns a rejected promise, and that promise is
\* then stored in refreshLocks and awaited.  The OAuth2Client getOAuth2Client
\* builds reports failures by rejecting the promise it returns; a synchronous
\* throw takes a client object passed by another caller of refreshGoogleToken.
StartRefreshSyncThrow(c, p, u) ==
    /\ NeedsRefresh(c, p, u)
    /\ ExistingLock(p) = NoLock
    /\ promises' = Append(promises, NewPromise(p, u, "rejected"))
    /\ refreshLocks' = [DeleteLock(p) EXCEPT ![p] = Len(promises) + 1]
    /\ providerCalls' = [providerCalls EXCEPT ![p] = @ + 1]
    /\ callers' = [callers EXCEPT ![c] =
                     [Entered(c, p, u) EXCEPT !.pc = "failed", !.started = TRUE,
                                              !.prom = Len(promises) + 1,
                                              !.err = "TokenExpiredError",
                                              !.cause = Len(promises) + 1]]
    /\ UNCHANGED <<now, profile, held, nextToken, clearedLive, cleared>>
    /\ UNCHANGED nonTokenVars

\* storage.getProfileById(user.id) answers; getOAuth2Client returns the row
GetProfileById(c) ==
    /\ callers[c].pc = "refetch"
    /\ callers' = [callers EXCEPT ![c].pc = "done", ![c].result = profile[callers[c].p]]
    /\ UNCHANGED <<now, profile, held, refreshLocks, promises, nextToken, providerCalls,
                   clearedLive, cleared>>
    /\ UNCHANGED nonTokenVars

-----------------------------------------------------------------------------
(* The refresh operation (the async function behind refreshPromise) *)

RespKinds == {"full", "noexpiry"}

\* what the provider's answer carries
Credentials(kind) ==
    [access_token |-> nextToken,
     expiry_date |-> IF kind = "noexpiry" THEN 0 ELSE now + TokenLifetime]

\* refreshAccessToken() resolves: storage.updateProfile is called
ProviderResolves(id, kind) ==
    /\ promises[id].state = "provider"
    /\ promises' = [promises EXCEPT
                      ![id].state = "store", ![id].resp = kind,
                      ![id].fields = UpdatedFields(promises[id].user, Credentials(kind))]
    /\ nextToken' = nextToken + 1
    /\ UNCHANGED <<now, profile, held, refreshLocks, callers, providerCalls, clearedLive, cleared>>
    /\ UNCHANGED nonTokenVars

RowAfterFailureWritten(id) == ApplyUpdate(profile[promises[id].p], promises[id].fields)

\* the stored row when a refresh ends in the catch block: nothing was written
RowAfterFailure(id) == profile[promises[id].p]

\* the refresh ends in catch (TokenRefreshError) and finally
Reject(id) ==
    /\ profile' = [profile EXCEPT ![promises[id].p] = RowAfterFailure(id)]
    /\ held' = [held EXCEPT ![promises[id].p] = @ \cup {RowAfterFailure(id)}]
    /\ promises' = [promises EXCEPT ![id].state = "rejected",
                                    ![id].endProfile = RowAfterFailure(id)]
    /\ refreshLocks' = DeleteLock(promises[id].p)
    /\ callers' = FailWaiters(id)

\* refreshAccessToken() rejects
ProviderRejects(id) ==
    /\ promises[id].state = "provider"
    /\ Reject(id)
    /\ UNCHANGED <<now, nextToken, providerCalls, clearedLive, cleared>>
    /\ UNCHANGED nonTokenVars

\* storage.updateProfile rejects (or throws)
UpdateProfileFails(id) ==
    /\ promises[id].state = "store"
    /\ Reject(id)
    /\ UNCHANGED <<now, nextToken, providerCalls, clearedLive, cleared>>
    /\ UNCHANGED nonTokenVars

\* storage.updateProfile resolves: setCredentials, finally, promise resolved.
\* server/storage.ts holds no updateProfile; the row it leaves is the one the
\* arguments of the call describe.
UpdateProfileDone(id) ==
    /\ promises[id].state = "store"
    /\ LET p == promises[id].p
           row == ApplyUpdate(profile[p], promises[id].fields) IN
        /\ profile' = [profile EXCEPT ![p] = row]
        /\ held' = [held EXCEPT ![p] = @ \cup {row}]
        /\ promises' = [promises EXCEPT ![id].state = "resolved", ![id].endProfile = row]
        /\ refreshLocks' = DeleteLock(p)
    /\ callers' = ResumeWaiters(id)
    /\ UNCHANGED <<now, nextToken, providerCalls, clearedLive, cleared>>
    /\ UNCHANGED nonTokenVars

\* clearRefreshLock(userId)
ClearRefreshLock(p) ==
    /\ ~cleared
    /\ cleared' = TRUE
    /\ refreshLocks[p] # NoLock
    /\ refreshLocks' = DeleteLock(p)
    /\ clearedLive' = [clearedLive EXCEPT ![p] = @ \/ InFlight(p) # {}]
    /\ UNCHANGED <<now, profile, held, promises, nextToken, callers, providerCalls>>
    /\ UNCHANGED nonTokenVars

\* time passes
Tick ==
    /\ now < MaxTime
    /\ now' = now + 1
    /\ UNCHANGED <<profile, held, refreshLocks, promises, nextToken, callers,
                   providerCalls, clearedLive, cleared>>
    /\ UNCHANGED nonTokenVars

NextToken ==
    \/ \E c \in Callers, p \in Principals : \E u \in held[p] : GetClientNoTokens(c, p, u)
    \/ \E c \in Callers, p \in Principals : \E u \in held[p] : GetClientFresh(c, p, u)
    \/ \E c \in Callers, p \in Principals : \E u \in held[p] : JoinRefresh(c, p, u)
    \/ \E c \in Callers, p \in Principals : \E u \in held[p] : StartRefresh(c, p, u)
    \/ \E c \in Callers : GetProfileById(c)
    \/ \E id \in PromiseIds, kind \in RespKinds : ProviderResolves(id, kind)
    \/ \E id \in PromiseIds : ProviderRejects(id)
    \/ \E id \in PromiseIds : UpdateProfileFails(id)
    \/ \E id \in PromiseIds : UpdateProfileDone(id)
    \/ Tick

\* refreshGoogleToken and clearRefreshLock as exported: callers other than
\* getOAuth2Client may pass any client object and clear locks
NextTokenTest ==
    \/ NextToken
    \/ \E c \in Callers, p \in Principals : \E u \in held[p] : StartRefreshSyncThrow(c, p, u)
    \/ \E p \in Principals : ClearRefreshLock(p)

-----------------------------------------------------------------------------
(* Rate limiter: bounds, inputs *)

\* largest maxRequests and windowSeconds a limiter of the model is created with
MaxLimit == 2
MaxWindow == 2
\* the clock advances in steps of StepMs, MaxSteps times at most
StepMs == 500
MaxSteps == 4
\* requests in a run
MaxReqs == 3

\* Two of the limiters the module exports.  The generation limiter is created
\* with every maxRequests and windowSeconds up to the bounds; the presentation
\* limiter admits fewer requests over the longest window, as
\* presentationCreationRateLimit (5 per 300 s) does beside
\* aiGenerationRateLimit (10 per 60 s).
Buckets == {"generation", "presentation"}

\* a request: the session's userId ("" when not authenticated) and the peer's address
Requests == { [userId |-> "alice", ip |-> "ip1"], [userId |-> "", ip |-> "ip1"] }

\* the exported limiters' keyGenerator: userId || req.ip || ...
keyGenerator(req) == IF req.userId # "" THEN req.userId ELSE req.ip

Keys == { keyGenerator(r) : r \in Requests }

\* Math.ceil(x / d) for d > 0
CeilDiv(x, d) == -((-x) \div d)

Max(a, b) == IF a >= b THEN a ELSE b

NoRecord == [present |-> FALSE, count |-> 0, resetTime |-> 0]

NoRequest == [bucket |-> "generation", key |-> "", at |-> 0, created |-> FALSE,
              replaced |-> FALSE, count |-> 0, resetTime |-> 0]

NoResponse == [status |-> 0, limit |-> 0, remaining |-> 0, reset |-> 0,
               retryAfterHeader |-> -1, retryAfter |-> -1, nextCalls |-> 0]

\* the module as loaded, with limiters created with the options opts
Loaded(opts) ==
    /\ rnow = 0
    /\ options = opts
    /\ rateLimitStore = [k \in Keys |-> NoRecord]
    /\ seq = 0
    /\ lastReq = NoRequest
    /\ lastRes = NoResponse
    /\ attempts = [b \in Buckets |-> [k \in Keys |-> 0]]
    /\ highReset = [k \in Keys |-> 0]
    /\ admitted = [b \in Buckets |-> [k \in Keys |-> << >>]]
    /\ unswept = [store |-> [k \in Keys |-> NoRecord], replaced |-> FALSE,
                  exceeded |-> FALSE, res |-> NoResponse]

InitRate ==
    \E o \in [maxRequests : 1..MaxLimit, windowSeconds : 1..MaxWindow] :
        Loaded([b \in Buckets |->
                  IF b = "generation" THEN o
                  ELSE [maxRequests |-> 1, windowSeconds |-> MaxWindow]])

-----------------------------------------------------------------------------
(* Rate limiter: the middleware *)

\* the default skip option, which every exported limiter uses
skip(req) == FALSE

ExpiredOrEqual(rec, t) == rec.resetTime <= t

\* rateLimitStore[key].resetTime < now
Expired(rec, t) == rec.resetTime < t

CountedExtends(rec, t, windowMs) ==
    IF ~rec.present \/ Expired(rec, t)
    THEN [present |-> TRUE, count |-> 1, resetTime |-> t + windowMs]
    ELSE [rec EXCEPT !.count = @ + 1, !.resetTime = t + windowMs]

\* the record the middleware works on: a fresh one when there is none or the
\* stored one has expired, then count++
Counted(rec, t, windowMs) ==
    IF ~rec.present \/ Expired(rec, t)
    THEN [present |-> TRUE, count |-> 1, resetTime |-> t + windowMs]
    ELSE [rec EXCEPT !.count = @ + 1]

\* Math.max(0, maxRequests - rateLimit.count)
Remaining(maxRequests, count) == Max(0, maxRequests - count)

RetryAfterFloor(rec, t) == (rec.resetTime - t) \div 1000

\* Math.ceil((rateLimit.resetTime - now) / 1000)
RetryAfter(rec, t) == CeilDiv(rec.resetTime - t, 1000)

\* the response of the middleware for the counted record
Respond(rec, t, maxRequests) ==
    LET base == [status |-> 0, limit |-> maxRequests,
                 remaining |-> Remaining(maxRequests, rec.count),
                 reset |-> CeilDiv(rec.resetTime, 1000),
                 retryAfterHeader |-> -1, retryAfter |-> -1, nextCalls |-> 0] IN
    IF rec.count > maxRequests
    THEN [base EXCEPT !.status = 429, !.retryAfterHeader = RetryAfter(rec, t),
                      !.retryAfter = RetryAfter(rec, t)]
    ELSE [base EXCEPT !.nextCalls = 1]

\* the last n elements of s
Latest(s, n) == IF Len(s) <= n THEN s ELSE SubSeq(s, Len(s) - n + 1, Len(s))

\* one request passes through the limiter of bucket b
RateLimit(b, req) ==
    /\ LET key == keyGenerator(req)
           windowMs == options[b].windowSeconds * 1000
           old == rateLimitStore[key]
           rec == Counted(old, rnow, windowMs)
           created == ~old.present \/ Expired(old, rnow) IN
        IF skip(req)
        THEN /\ lastRes' = [NoResponse EXCEPT !.nextCalls = 1]
             /\ lastReq' = [NoRequest EXCEPT !.bucket = b, !.key = key, !.at = rnow]
             /\ unswept' = [unswept EXCEPT !.replaced = FALSE, !.exceeded = FALSE,
                                           !.res = [NoResponse EXCEPT !.nextCalls = 1]]
             /\ UNCHANGED <<rateLimitStore, attempts, highReset, admitted>>
        ELSE /\ rateLimitStore' = [rateLimitStore EXCEPT ![key] = rec]
             /\ lastReq' = [bucket |-> b, key |-> key, at |-> rnow, created |-> created,
                             replaced |-> old.present /\ created,
                             count |-> rec.count, resetTime |-> rec.resetTime]
             /\ lastRes' = Respond(rec, rnow, options[b].maxRequests)
             /\ attempts' = [c \in Buckets |-> [k \in Keys |->
                               IF k # key THEN attempts[c][k]
                               ELSE (IF created THEN 0 ELSE attempts[c][k])
                                    + (IF c = b THEN 1 ELSE 0)]]
             /\ highReset' = [highReset EXCEPT ![key] = Max(@, rec.resetTime)]
             /\ admitted' =
                  IF rec.count > options[b].maxRequests THEN admitted
                  ELSE [admitted EXCEPT ![b][key] =
                          Latest(Append(@, rnow), 2 * options[b].maxRequests + 1)]
             /\ unswept' =
                  LET kept == unswept.store[key]
                      urec == Counted(kept, rnow, windowMs) IN
                  [store |-> [unswept.store EXCEPT ![key] = urec],
                   replaced |-> kept.present /\ Expired(kept, rnow),
                   exceeded |-> /\ kept.present /\ Expired(kept, rnow)
                                /\ kept.count > options[b].maxRequests,
                   res |-> Respond(urec, rnow, options[b].maxRequests)]
    /\ seq' = seq + 1
    /\ UNCHANGED <<rnow, options>>
    /\ UNCHANGED nonRateVars

StaleOrEqual(rec, t) == rec.present /\ rec.resetTime <= t

\* the test of the cleanup: rateLimitStore[key].resetTime < now
Stale(rec, t) == rec.present /\ rec.resetTime < t

\* the setInterval callback: delete every record with resetTime < now
Sweep ==
    /\ \E k \in Keys : Stale(rateLimitStore[k], rnow)
    /\ rateLimitStore' = [k \in Keys |->
                            IF Stale(rateLimitStore[k], rnow)
                            THEN NoRecord ELSE rateLimitStore[k]]
    /\ UNCHANGED <<rnow, options, seq, lastReq, lastRes, attempts, highReset, admitted,
                   unswept>>
    /\ UNCHANGED nonRateVars

\* time passes, up to n steps
Elapse(n) ==
    /\ rnow < n * StepMs
    /\ rnow' = rnow + StepMs
    /\ UNCHANGED <<options, rateLimitStore, seq, lastReq, lastRes, attempts, highReset,
                   admitted, unswept>>
    /\ UNCHANGED nonRateVars

Advance == Elapse(MaxSteps)

\* a client sends a request to the limiter of bucket b
Request(b, req) == seq < MaxReqs /\ RateLimit(b, req)

NextRate ==
    \/ \E b \in Buckets, req \in Requests : Request(b, req)
    \/ Sweep
    \/ Advance

-----------------------------------------------------------------------------
(* Rate limiter: one signed-in client using two limiters of different windows *)

\* maxRequests and windowSeconds of the limiter with the longer window, and
\* the time and the requests the client has
BurstLimit == 4
BurstWindow == 2
BurstSteps == 6
BurstReqs == 12

\* the started state with a limiter of 1 request per second and a limiter of
\* BurstLimit requests per BurstWindow seconds
InitRateBurst ==
    Loaded([b \in Buckets |->
              IF b = "generation" THEN [maxRequests |-> 1, windowSeconds |-> 1]
              ELSE [maxRequests |-> BurstLimit, windowSeconds |-> BurstWindow]])

SignedIn == [userId |-> "alice", ip |-> "ip1"]

BurstRequest(b) == seq < BurstReqs /\ RateLimit(b, SignedIn)

BurstAdvance == Elapse(BurstSteps)

NextRateBurst ==
    \/ \E b \in Buckets : BurstRequest(b)
    \/ Sweep
    \/ BurstAdvance

-----------------------------------------------------------------------------
(* Image URL validator (server/utils/url-validator.ts) *)

\* A URL text is described by what the WHATWG parser reads from it: its form
\* ("undefined", "empty", "blank" for white space only, "garbage" for a text
\* that new URL() rejects, "url" for one it accepts), the scheme and the host
\* labels as written (any case), and whether white space surrounds it.
Schemes == {"http", "https", "HTTP", "ftp", "file", "data"}

Hosts ==
    { <<"unsplash", "com">>, <<"images", "unsplash", "com">>,
      <<"Images", "UNSPLASH", "com">>, <<"photos", "cdn", "openai", "com">>,
      <<"evil", "com">>, <<"evilunsplash", "com">>,
      <<"unsplash", "com", "evil", "com">>, <<"com">>,
      <<"localhost">>, <<"127", "0", "0", "1">>, <<"10", "0", "0", "5">>,
      <<"192", "168", "0", "1">> }

UrlText(form, scheme, host, padded) ==
    [form |-> form, scheme |-> scheme, host |-> host, padded |-> padded]

NoUrl == UrlText("undefined", "", << >>, FALSE)

UrlTexts ==
    { NoUrl, UrlText("empty", "", << >>, FALSE), UrlText("blank", "", << >>, TRUE) }
    \cup { UrlText("garbage", "", << >>, pad) : pad \in BOOLEAN }
    \cup { UrlText("url", sc, h, pad) : sc \in Schemes, h \in Hosts, pad \in BOOLEAN }

\* TRUSTED_IMAGE_DOMAINS
TRUSTED_IMAGE_DOMAINS ==
    { <<"images", "unsplash", "com">>, <<"unsplash", "com">>,
      <<"plus", "unsplash", "com">>, <<"cdn", "openai", "com">>,
      <<"oaidalleapiprodscus", "blob", "core", "windows", "net">>,
      <<"puter", "com">>, <<"api", "puter", "com">>,
      <<"storage", "googleapis", "com">>, <<"drive", "google", "com">> }

\* String.prototype.toLowerCase on the texts of the model
toLowerCase(t) ==
    CASE t = "HTTP" -> "http"
      [] t = "UNSPLASH" -> "unsplash"
      [] t = "Images" -> "images"
      [] OTHER -> t

LowerHost(h) == [i \in 1..Len(h) |-> toLowerCase(h[i])]

\* url.trim()
Trim(u) ==
    IF u.form = "blank" THEN UrlText("empty", "", << >>, FALSE)
    ELSE [u EXCEPT !.padded = FALSE]

\* !url
Falsy(u) == u.form \in {"undefined", "empty"}

\* new URL(text) throws
ParseFails(u) == u.form # "url"

\* new URL(text): protocol and hostname in lower case
ParseUrl(u) == [protocol |-> toLowerCase(u.scheme), hostname |-> LowerHost(u.host)]

\* parsedUrl.href
Href(parsed) == UrlText("url", parsed.protocol, parsed.hostname, FALSE)

\* hostname.endsWith('.' + domain): the labels of domain end the hostname,
\* after at least one more label
EndsWithDomain(hostname, domain) ==
    /\ Len(hostname) > Len(domain)
    /\ SubSeq(hostname, Len(hostname) - Len(domain) + 1, Len(hostname)) = domain

isUrlTrusted(u) ==
    IF ParseFails(u) THEN FALSE
    ELSE LET hostname == LowerHost(ParseUrl(u).hostname) IN
         \E domain \in TRUSTED_IMAGE_DOMAINS :
             hostname = LowerHost(domain) \/ EndsWithDomain(hostname, LowerHost(domain))

UpgradeNone(protocol) == protocol

\* if (parsedUrl.protocol === 'http:') parsedUrl.protocol = 'https:'
Upgrade(protocol) == IF protocol = "http" THEN "https" ELSE protocol

Returned(value) == [kind |-> "returned", value |-> value, error |-> "none"]
Thrown(error) == [kind |-> "thrown", value |-> NoUrl, error |-> error]

\* validateImageUrl(url, allowUntrusted): what it returns or throws
validateImageUrl(url, allowUntrusted) ==
    IF Falsy(url) THEN Returned(NoUrl)
    ELSE LET trimmedUrl == Trim(url) IN
         IF Falsy(trimmedUrl) THEN Returned(NoUrl)
         ELSE IF ParseFails(trimmedUrl) THEN Thrown("InvalidImageUrlError")
         ELSE LET parsed == ParseUrl(trimmedUrl) IN
              IF parsed.protocol \notin {"http", "https"}
              THEN Thrown("InvalidImageUrlError")
              ELSE LET upgraded == [parsed EXCEPT !.protocol = Upgrade(@)] IN
                   IF ~allowUntrusted /\ ~isUrlTrusted(Href(upgraded))
                   THEN Thrown("UntrustedImageDomainError")
                   ELSE Returned(Href(upgraded))

\* the octets of a dotted IPv4 host
IsIPv4(h) == Len(h) = 4 /\ \A i \in 1..4 : h[i] \in {"0", "1", "5", "10", "127", "168", "192"}

\* isPublicUrl(url): the hostname matches none of privatePatterns
isPublicUrl(u) ==
    IF ParseFails(u) THEN FALSE
    ELSE LET hostname == LowerHost(ParseUrl(u).hostname) IN
         ~ \/ hostname = <<"localhost">>
           \/ IsIPv4(hostname) /\ hostname[1] \in {"127", "10"}
           \/ IsIPv4(hostname) /\ hostname[1] = "192" /\ hostname[2] = "168"
           \/ hostname = <<"0", "0", "0", "0">>

NoCall == [url |-> NoUrl, allowUntrusted |-> FALSE, pc |-> "idle", outcome |-> Returned(NoUrl)]

UrlIdle == urlCall = NoCall

\* a caller is about to call validateImageUrl(url, allowUntrusted)
InitUrl ==
    \E url \in UrlTexts, allowUntrusted \in BOOLEAN :
        urlCall = [NoCall EXCEPT !.url = url, !.allowUntrusted = allowUntrusted,
                                 !.pc = "called"]

ValidateImageUrl ==
    /\ urlCall.pc = "called"
    /\ urlCall' = [urlCall EXCEPT
                     !.pc = "done",
                     !.outcome = validateImageUrl(urlCall.url, urlCall.allowUntrusted)]
    /\ UNCHANGED nonUrlVars

NextUrl == ValidateImageUrl

-----------------------------------------------------------------------------
(* addSlidesToPresentation (server/presentation.ts): inputs and pure parts *)

\* slides of a deck after the first vary less; decks of full slides fill
\* several batches
MaxSlides == 2
BigSlides == 12

GOOGLE_API_BATCH_SIZE == 100
MAX_REQUESTS_PER_SLIDE == 10

\* the text fields of a slide, in the order createSlideRequests handles them
Fields == <<"title", "subtitle", "text", "bullets", "questions">>

\* a slide: which text fields are present (for bulletPoints and questions:
\* present and not empty), the image URL, whether there are notes
Slide(present, imageUrl, notes) ==
    [present |-> present, imageUrl |-> imageUrl, notes |-> notes]

Shapes == { {}, {"title"}, {"title", "subtitle", "text", "bullets", "questions"} }

TrustedImage == UrlText("url", "http", <<"images", "unsplash", "com">>, FALSE)

ImageUrls ==
    { NoUrl, UrlText("blank", "", << >>, TRUE), UrlText("garbage", "", << >>, FALSE),
      TrustedImage,
      UrlText("url", "ftp", <<"images", "unsplash", "com">>, FALSE),
      UrlText("url", "https", <<"evil", "com">>, FALSE),
      UrlText("url", "http", <<"localhost">>, FALSE) }

FirstSlides == { Slide(sh, u, n) : sh \in Shapes, u \in ImageUrls, n \in BOOLEAN }

LaterSlides ==
    { Slide({"title"}, TrustedImage, TRUE),
      Slide({"title", "text"}, UrlText("garbage", "", << >>, FALSE), FALSE),
      Slide({}, UrlText("url", "http", <<"localhost">>, FALSE), TRUE) }

FullSlide == Slide({"title", "subtitle", "text", "bullets", "questions"}, TrustedImage, FALSE)

RECURSIVE SmallDecks(_)
SmallDecks(n) ==
    IF n = 0 THEN { << >> }
    ELSE IF n = 1 THEN { <<sl>> : sl \in FirstSlides }
    ELSE { Append(d, sl) : d \in SmallDecks(n - 1), sl \in LaterSlides }

Decks ==
    UNION { SmallDecks(n) : n \in 0..MaxSlides }
    \cup { [i \in 1..n |-> FullSlide] : n \in {BigSlides \div 2, BigSlides} }

CreateOptions == [colorTheme : {"none", "blue"}, allowUntrustedImages : BOOLEAN]

RequestCountFour(content) ==
    1 + 4 * Cardinality(content.present)
      + (IF Falsy(content.imageUrl) THEN 0 ELSE 1)
      + (IF content.notes THEN 1 ELSE 0)

\* validateSlideContent: the requestCount of a slide
RequestCount(content) ==
    1 + 3 * Cardinality(content.present)
      + (IF Falsy(content.imageUrl) THEN 0 ELSE 1)
      + (IF content.notes THEN 1 ELSE 0)

\* validateSlideContent throws BatchSizeExceededError
ContentTooLarge(contents, max) ==
    \E i \in 1..Len(contents) : RequestCount(contents[i]) > max * 2

SanitizedKeep(slide, allowUntrusted) == slide

\* the callback of validateSlideImages: the slide with its image URL
\* validated, or without it when validateImageUrl throws
Sanitized(slide, allowUntrusted) ==
    IF Falsy(slide.imageUrl) THEN slide
    ELSE LET outcome == validateImageUrl(slide.imageUrl, allowUntrusted) IN
         IF outcome.kind = "thrown" THEN [slide EXCEPT !.imageUrl = NoUrl]
         ELSE [slide EXCEPT !.imageUrl = outcome.value]

validateSlideImages(contents, allowUntrusted) ==
    [i \in 1..Len(contents) |-> Sanitized(contents[i], allowUntrusted)]

ObjectIdNoIndex(kind, index) == <<kind, 0>>

\* `${kind}_${index}`
ObjectId(kind, index) == <<kind, index>>

NoId == <<"", 0>>

\* a request of a batchUpdate: the operation, the id of the object it creates
\* or changes, the page it is on, and what else it carries
Op(op, objectId, page, arg) == [op |-> op, objectId |-> objectId, page |-> page, arg |-> arg]

\* translateY of a text box: body boxes sit lower under a title
Position(field, content) ==
    IF field \in {"title", "subtitle"} THEN field
    ELSE IF "title" \in content.present THEN "CONTENT_POSITION_WITH_TITLE"
    ELSE "CONTENT_POSITION_NO_TITLE"

FieldRequestsStyleFirst(field, content, index, theme) ==
    LET id == ObjectId(field, index) IN
    << Op("createShape", id, ObjectId("slide", index), Position(field, content)),
       Op("updateTextStyle", id, NoId,
          IF theme # "none" /\ field \in {"title", "subtitle"} THEN theme ELSE "none"),
       Op("insertText", id, NoId, field) >>

\* createShape, insertText, updateTextStyle of one text field
FieldRequests(field, content, index, theme) ==
    LET id == ObjectId(field, index) IN
    << Op("createShape", id, ObjectId("slide", index), Position(field, content)),
       Op("insertText", id, NoId, field),
       Op("updateTextStyle", id, NoId,
          IF theme # "none" /\ field \in {"title", "subtitle"} THEN theme ELSE "none") >>

RECURSIVE FieldsFrom(_, _, _, _)
FieldsFrom(k, content, index, theme) ==
    IF k > Len(Fields) THEN << >>
    ELSE (IF Fields[k] \in content.present
          THEN FieldRequests(Fields[k], content, index, theme) ELSE << >>)
         \o FieldsFrom(k + 1, content, index, theme)

\* createSlideRequests(content, index, colorTheme)
createSlideRequests(content, index, colorTheme) ==
    << Op("createSlide", ObjectId("slide", index), NoId, index) >>
    \o FieldsFrom(1, content, index, colorTheme)
    \o (IF Falsy(content.imageUrl) THEN << >>
        ELSE << Op("createImage", NoId, ObjectId("slide", index), content.imageUrl) >>)

RECURSIVE SlidesFrom(_, _, _)
SlidesFrom(i, contents, colorTheme) ==
    IF i > Len(contents) THEN << >>
    ELSE createSlideRequests(contents[i], i - 1, colorTheme)
         \o SlidesFrom(i + 1, contents, colorTheme)

AllRequestsDeleteLast(firstSlideId, contents, colorTheme) ==
    SlidesFrom(1, contents, colorTheme)
    \o (IF firstSlideId = NoId THEN << >>
        ELSE << Op("deleteObject", firstSlideId, NoId, "") >>)

\* allRequests: the deleteObject of the default slide, then every slide
AllRequests(firstSlideId, contents, colorTheme) ==
    (IF firstSlideId = NoId THEN << >>
     ELSE << Op("deleteObject", firstSlideId, NoId, "") >>)
    \o SlidesFrom(1, contents, colorTheme)

Min(a, b) == IF a <= b THEN a ELSE b

SliceShort(s, from, to) == SubSeq(s, from + 1, Min(to, Len(s)) - 1)

\* s.slice(from, to) for 0 <= from <= to
Slice(s, from, to) == SubSeq(s, from + 1, Min(to, Len(s)))

\* the loop building batches, from offset i
RECURSIVE BatchesFrom(_, _)
BatchesFrom(i, requests) ==
    IF i >= Len(requests) THEN << >>
    ELSE << Slice(requests, i, i + GOOGLE_API_BATCH_SIZE) >>
         \o BatchesFrom(i + GOOGLE_API_BATCH_SIZE, requests)

-----------------------------------------------------------------------------
(* addSlidesToPresentation: the call, one step per answer it awaits *)

NoOutcome == [successCount |-> -1, failedSlides |-> << >>, warnings |-> << >>]

IdleRun ==
    [pc |-> "idle", error |-> "none", validatedSlides |-> << >>, firstSlideId |-> NoId,
     allRequests |-> << >>, batches |-> << >>, i |-> 0, submissions |-> << >>,
     batchSuccessCount |-> 0, notesAttempts |-> << >>, warnings |-> << >>,
     failedSlides |-> << >>, calls |-> << >>, outcome |-> NoOutcome]

SlidesIdle ==
    /\ slideContents = << >>
    /\ createOptions = [colorTheme |-> "none", allowUntrustedImages |-> FALSE]
    /\ ceiling = MAX_REQUESTS_PER_SLIDE
    /\ run = IdleRun

\* addSlidesToPresentation has been called with one of the decks and awaits
\* getOAuth2Client
CalledWith(decks, opts, max) ==
    /\ slideContents \in decks
    /\ createOptions \in opts
    /\ ceiling = max
    /\ run = [IdleRun EXCEPT !.pc = "auth"]

Called(max) == CalledWith(Decks, CreateOptions, max)

InitSlides == Called(MAX_REQUESTS_PER_SLIDE)

Warning(kind, index) == [kind |-> kind, index |-> index]

\* a call of the Slides API: the method and the batch or slide it is for
Call(api, arg) == [api |-> api, arg |-> arg]

Throw(error) ==
    /\ run' = [run EXCEPT !.pc = "aborted", !.error = error]
    /\ UNCHANGED <<slideContents, createOptions, ceiling>>
    /\ UNCHANGED nonSlideVars

ReturnBatchCount(r) ==
    [r EXCEPT !.pc = "returned",
              !.outcome = [successCount |-> r.batchSuccessCount,
                           failedSlides |-> r.failedSlides,
                           warnings |-> r.warnings]]

ReturnNoWarnings(r) ==
    [r EXCEPT !.pc = "returned",
              !.outcome = [successCount |-> Len(r.validatedSlides) - Len(r.failedSlides),
                           failedSlides |-> r.failedSlides,
                           warnings |-> << >>]]

\* the return statement
Return(r) ==
    [r EXCEPT !.pc = "returned",
              !.outcome = [successCount |-> Len(r.validatedSlides) - Len(r.failedSlides),
                           failedSlides |-> r.failedSlides,
                           warnings |-> r.warnings]]

\* the speaker notes loop from slide number from (counted from 1): call
\* addSpeakerNotes for the next slide that has notes, or return
NotesLoop(r, from) ==
    LET rest == { j \in from..Len(r.validatedSlides) : r.validatedSlides[j].notes } IN
    IF rest = {} THEN Return(r)
    ELSE LET j == CHOOSE j \in rest : \A k \in rest : j <= k IN
         [r EXCEPT !.pc = "notesGet", !.i = j,
                   !.notesAttempts = Append(@, j - 1),
                   !.calls = Append(@, Call("notes presentations.get", j - 1))]

BatchLoopEarlyNotes(r, from) ==
    IF from >= Len(r.batches) THEN NotesLoop(r, 1)
    ELSE [r EXCEPT !.pc = "batch", !.i = from,
                   !.calls = Append(@, Call("batchUpdate", from - 1))]

\* the batch loop from batch number from (counted from 1)
BatchLoop(r, from) ==
    IF from > Len(r.batches) THEN NotesLoop(r, 1)
    ELSE [r EXCEPT !.pc = "batch", !.i = from,
                   !.calls = Append(@, Call("batchUpdate", from - 1))]

AuthErrors == {"GoogleAuthError", "TokenExpiredError"}

\* getOAuth2Client throws GoogleAuthError or TokenExpiredError
GetClientThrows(error) ==
    /\ run.pc = "auth"
    /\ Throw(error)

\* getOAuth2Client returns, validateSlideContent throws
ContentRejected ==
    /\ run.pc = "auth"
    /\ ContentTooLarge(slideContents, ceiling)
    /\ Throw("BatchSizeExceededError")

\* getOAuth2Client returns, the slides pass validateSlideContent, their
\* images are validated, presentations.get is called
GetClientReturns ==
    /\ run.pc = "auth"
    /\ ~ContentTooLarge(slideContents, ceiling)
    /\ run' = [run EXCEPT
                 !.pc = "get",
                 !.calls = Append(@, Call("presentations.get", 0)),
                 !.validatedSlides =
                     validateSlideImages(slideContents, createOptions.allowUntrustedImages)]
    /\ UNCHANGED <<slideContents, createOptions, ceiling>>
    /\ UNCHANGED nonSlideVars

\* presentations.get rejects
PresentationGetFails ==
    /\ run.pc = "get"
    /\ Throw("ApiError")

\* the id of the default slide of a new presentation
DefaultSlide == <<"p", 0>>

\* presentations.get answers: the requests are compiled and cut into
\* batches, and the first batch is submitted
PresentationGot(firstSlideId) ==
    /\ run.pc = "get"
    /\ LET allRequests == AllRequests(firstSlideId, run.validatedSlides,
                                      createOptions.colorTheme)
           r == [run EXCEPT !.firstSlideId = firstSlideId,
                            !.allRequests = allRequests,
                            !.batches = BatchesFrom(0, allRequests)] IN
       run' = BatchLoop(r, 1)
    /\ UNCHANGED <<slideContents, createOptions, ceiling>>
    /\ UNCHANGED nonSlideVars

BatchWarningsNone(warnings, i, ok) == warnings

\* the catch of the batch loop
BatchWarnings(warnings, i, ok) ==
    IF ok THEN warnings ELSE Append(warnings, Warning("batch", i))

\* batchUpdate of batch run.i resolves (ok) or rejects
BatchUpdateDone(ok) ==
    /\ run.pc = "batch"
    /\ LET r == [run EXCEPT
                   !.submissions = Append(@, [batch |-> run.i - 1, ok |-> ok]),
                   !.batchSuccessCount = IF ok THEN @ + 1 ELSE @,
                   !.warnings = BatchWarnings(@, run.i - 1, ok)] IN
       run' = BatchLoop(r, run.i + 1)
    /\ UNCHANGED <<slideContents, createOptions, ceiling>>
    /\ UNCHANGED nonSlideVars

NotesFailedStops(r) ==
    Return([r EXCEPT !.warnings = Append(@, Warning("notes", r.i - 1))])

\* the catch of the speaker notes loop, then the next slide
NotesFailed(r) ==
    NotesLoop([r EXCEPT !.warnings = Append(@, Warning("notes", r.i - 1))], r.i + 1)

\* what presentations.get shows addSpeakerNotes
NotesPages == {"rejected", "no notes page", "no notes shape", "found"}

\* addSpeakerNotes: presentations.get answers
NotesGet(page) ==
    /\ run.pc = "notesGet"
    /\ run' = IF page = "found"
              THEN [run EXCEPT !.pc = "notesInsert",
                               !.calls = Append(@, Call("notes batchUpdate", run.i - 1))]
              ELSE NotesFailed(run)
    /\ UNCHANGED <<slideContents, createOptions, ceiling>>
    /\ UNCHANGED nonSlideVars

\* addSpeakerNotes: the insertText batchUpdate resolves (ok) or rejects
NotesInsertDone(ok) ==
    /\ run.pc = "notesInsert"
    /\ run' = IF ok THEN NotesLoop(run, run.i + 1) ELSE NotesFailed(run)
    /\ UNCHANGED <<slideContents, createOptions, ceiling>>
    /\ UNCHANGED nonSlideVars

NextSlides ==
    \/ \E error \in AuthErrors : GetClientThrows(error)
    \/ GetClientReturns
    \/ PresentationGetFails
    \/ \E firstSlideId \in {NoId, DefaultSlide} : PresentationGot(firstSlideId)
    \/ \E ok \in BOOLEAN : BatchUpdateDone(ok)
    \/ \E page \in NotesPages : NotesGet(page)
    \/ \E ok \in BOOLEAN : NotesInsertDone(ok)

\* the same for any value of MAX_REQUESTS_PER_SLIDE
InitSlidesCeiling == \E max \in 1..MAX_REQUESTS_PER_SLIDE : Called(max)

NextSlidesCeiling ==
    \/ NextSlides
    \/ ContentRejected

-----------------------------------------------------------------------------
(* addSlidesToPresentation with the getOAuth2Client it awaits *)

\* the caller of getOAuth2Client that is the run: another request may have
\* entered getOAuth2Client before it
RunCaller == Min(2, NumCallers)

\* a deck of one slide with title, image and notes, default options
AuthDecks == { << Slide({"title"}, TrustedImage, TRUE) >> }

InitSlidesAuth ==
    CalledWith(AuthDecks, {[colorTheme |-> "none", allowUntrustedImages |-> FALSE]},
               MAX_REQUESTS_PER_SLIDE)

\* the run's getOAuth2Client has thrown: `await getOAuth2Client(user)` throws
RunAuthThrows ==
    /\ callers[RunCaller].pc = "failed"
    /\ GetClientThrows(callers[RunCaller].err)

RunAuthReturnsEarly ==
    /\ callers[RunCaller].pc # "idle"
    /\ GetClientReturns

\* the run's getOAuth2Client has returned { auth, user }
RunAuthReturns ==
    /\ callers[RunCaller].pc = "done"
    /\ GetClientReturns

\* the token manager is followed until the run's getOAuth2Client settles:
\* the run continues in the same task (the await resumes as a microtask) and
\* does not read the token manager's state afterwards
TokenStep ==
    /\ run.pc = "auth"
    /\ callers[RunCaller].pc \notin {"done", "failed"}
    /\ NextToken

NextSlidesAuth ==
    \/ TokenStep
    \/ RunAuthThrows
    \/ RunAuthReturns
    \/ PresentationGetFails
    \/ \E firstSlideId \in {NoId, DefaultSlide} : PresentationGot(firstSlideId)
    \/ \E ok \in BOOLEAN : BatchUpdateDone(ok)
    \/ \E page \in NotesPages : NotesGet(page)
    \/ \E ok \in BOOLEAN : NotesInsertDone(ok)

-----------------------------------------------------------------------------
(* Specifications *)

\* the rate limiter before any request, with one choice of options
RateIdle ==
    /\ InitRate
    /\ options["generation"] = [maxRequests |-> 1, windowSeconds |-> 1]

\* the token manager with a connected principal and no caller
TokenIdle ==
    /\ InitToken
    /\ profile["u1"] = Profile(1, 1, 0)

\* getOAuth2Client and the token manager as the server runs them
InitSpecToken == InitToken /\ RateIdle /\ UrlIdle /\ SlidesIdle

SpecToken == InitSpecToken /\ [][NextToken]_vars

\* the token manager's exported functions under any caller
SpecTokenTest == InitSpecToken /\ [][NextTokenTest]_vars

\* the rate limiting middleware
InitSpecRate == TokenIdle /\ InitRate /\ UrlIdle /\ SlidesIdle

SpecRate == InitSpecRate /\ [][NextRate]_vars

\* the same with one client and two limiters of different windows
InitSpecRateBurst == TokenIdle /\ InitRateBurst /\ UrlIdle /\ SlidesIdle

SpecRateBurst == InitSpecRateBurst /\ [][NextRateBurst]_vars

\* validateImageUrl on every text and flag
InitSpecUrl == TokenIdle /\ RateIdle /\ InitUrl /\ SlidesIdle

SpecUrl == InitSpecUrl /\ [][NextUrl]_vars

\* addSlidesToPresentation on every deck
InitSpecSlides == TokenIdle /\ RateIdle /\ UrlIdle /\ InitSlides

SpecSlides == InitSpecSlides /\ [][NextSlides]_vars

\* the same when every call addSlidesToPresentation awaits settles
SpecSlidesSettling == SpecSlides /\ WF_vars(NextSlides)

\* addSlidesToPresentation and the token manager together
InitSpecSlidesAuth == InitToken /\ RateIdle /\ UrlIdle /\ InitSlidesAuth

SpecSlidesAuth == InitSpecSlidesAuth /\ [][NextSlidesAuth]_vars

\* the same for any per-slide ceiling
InitSpecSlidesCeiling == TokenIdle /\ RateIdle /\ UrlIdle /\ InitSlidesCeiling

SpecSlidesCeiling == InitSpecSlidesCeiling /\ [][NextSlidesCeiling]_vars

-----------------------------------------------------------------------------
(* Claims about the token manager *)

ProviderCalled(p) == providerCalls'[p] > providerCalls[p]

\* C1: concurrent calls of getOAuth2Client for one principal make one call to
\* the provider's refresh endpoint between them - no refresh call is made for
\* a principal while another call for it is still in progress - and the calls
\* that awaited the same refresh return the same credential.
C1_SingleRefreshCall ==
    /\ [][\A p \in Principals : ProviderCalled(p) => Active(p) = {}]_vars
    /\ [](\A c, d \in Callers :
            (/\ callers[c].pc = "done" /\ callers[d].pc = "done"
             /\ callers[c].prom # 0 /\ callers[c].prom = callers[d].prom)
            => callers[c].result = callers[d].result)

HasEntered(c) == callers[c].pc # "idle"

\* c has called refreshGoogleToken
CalledRefresh(c) == HasEntered(c) /\ callers[c].prom # 0

\* every caller that called refreshGoogleToken while a refresh of its principal
\* was in flight awaits that refresh and has not called the provider
JoinedInFlight(p) ==
    \A c \in Callers :
        (CalledRefresh(c) /\ callers[c].p = p /\ callers[c].inFlight # 0)
        => (callers[c].prom = callers[c].inFlight /\ ~callers[c].started)

\* C2 as stated: under any interleaving of refreshGoogleToken and
\* clearRefreshLock calls at most one refresh per principal is in flight, and
\* a caller arriving during a refresh awaits it instead of starting another.
C2_Original ==
    \A p \in Principals : Cardinality(InFlight(p)) <= 1 /\ JoinedInFlight(p)

\* C2 amended: the same, for every principal whose lock clearRefreshLock has
\* not removed while a refresh of that principal was in flight.
C2_AtMostOneInFlight ==
    \A p \in Principals :
        ~clearedLive[p] => (Cardinality(InFlight(p)) <= 1 /\ JoinedInFlight(p))

\* a caller has joined the refresh in flight that another caller started
C2_Witness ==
    \E c, d \in Callers :
        /\ callers[c].pc = "await" /\ callers[c].inFlight # 0
        /\ callers[c].prom = callers[c].inFlight /\ ~callers[c].started
        /\ callers[d].pc = "await" /\ callers[d].started
        /\ callers[d].prom = callers[c].prom
        /\ ~clearedLive[callers[c].p]

\* C3: where no refresh of a principal is in flight, refreshLocks holds no
\* entry for it (every settled refresh has removed its lock).
C3_NoStaleLock ==
    \A p \in Principals : InFlight(p) = {} => refreshLocks[p] = NoLock

Attached(id) == { c \in Callers : HasEntered(c) /\ callers[c].prom = id }

\* C4: when a refresh has failed, the stored credential is what it was when
\* the refresh started, and the caller that started it and every caller that
\* joined it have failed with that refresh's TokenRefreshError.
C4_FailureLeavesCredential ==
    \A id \in PromiseIds :
        promises[id].state = "rejected" =>
            /\ promises[id].endProfile = promises[id].startProfile
            /\ \A c \in Attached(id) :
                 /\ callers[c].pc = "failed"
                 /\ callers[c].err = "TokenExpiredError"
                 /\ callers[c].cause = id

\* a refresh failed after the provider had answered, with its starter and a joiner
C4_Witness ==
    \E id \in PromiseIds : \E c, d \in Attached(id) :
        /\ promises[id].state = "rejected" /\ promises[id].resp = "full"
        /\ callers[c].started /\ ~callers[d].started /\ callers[d].inFlight = id

HasExpiry(c) ==
    /\ HasEntered(c)
    /\ HasTokens(callers[c].user)
    /\ callers[c].user.googleTokenExpiry # NoExpiry

FreshAtCall(c) == callers[c].user.googleTokenExpiry > callers[c].callNow + FiveMinutes

\* C5: a call with a credential expiring more than 5 minutes after the call
\* returns that credential at once, attached to no refresh (no provider call,
\* no store write); a call with a credential expiring within 5 minutes is
\* attached to a refresh, and has returned only if that refresh succeeded.
C5_RefreshOnlyWhenNeeded ==
    \A c \in Callers : HasExpiry(c) =>
        /\ FreshAtCall(c) =>
             /\ callers[c].pc = "done"
             /\ callers[c].result = callers[c].user
             /\ callers[c].prom = 0 /\ ~callers[c].started
        /\ ~FreshAtCall(c) =>
             /\ callers[c].prom # 0
             /\ callers[c].pc = "done" => promises[callers[c].prom].state = "resolved"

\* one call returned at once, another refreshed a credential expiring
\* exactly 5 minutes after the call
C5_Witness ==
    \E c, d \in Callers :
        /\ HasExpiry(c) /\ FreshAtCall(c) /\ callers[c].pc = "done"
        /\ HasExpiry(d) /\ callers[d].pc = "done" /\ callers[d].started
        /\ callers[d].user.googleTokenExpiry = callers[d].callNow + FiveMinutes

NotExpiringSoon(c) ==
    /\ callers[c].result.googleTokenExpiry # NoExpiry
    /\ callers[c].result.googleTokenExpiry > callers[c].callNow + FiveMinutes

WellFormedResponses(p) ==
    \A id \in PromiseIds : promises[id].p = p => promises[id].resp # "noexpiry"

-----------------------------------------------------------------------------
(* Claims about the rate limiter *)

Answered == seq > 0

Admitted == lastRes.nextCalls = 1 /\ lastRes.status # 429

\* the window of the last request's key holds requests of its bucket only
OwnWindow ==
    \A b \in Buckets \ {lastReq.bucket} : attempts[b][lastReq.key] = 0

\* C7: of the requests a (bucket, identity) pair makes within one window, the
\* maxRequests-th is admitted and the next one is rejected with retryAfter > 0.
C7_Admission ==
    (Answered /\ OwnWindow) =>
        LET n == attempts[lastReq.bucket][lastReq.key]
            max == options[lastReq.bucket].maxRequests IN
        /\ n <= max => Admitted
        /\ n = max + 1 => (lastRes.status = 429 /\ lastRes.retryAfter > 0)

\* C8: a request is rejected only when the requests its identity made to the
\* same bucket within the window exceed that bucket's maxRequests: requests
\* to other buckets do not count against it.
C8_BucketsIndependent ==
    (Answered /\ lastRes.status = 429) =>
        attempts[lastReq.bucket][lastReq.key] > options[lastReq.bucket].maxRequests

\* C9: the resetTime of a key changes only by a request that finds no record
\* or a record with resetTime < now; that request leaves count = 1 and
\* resetTime = now + windowSeconds and is admitted; a record is removed only
\* when its resetTime < now; so resetTime never decreases.
C9_WindowReset ==
    [][\A k \in Keys :
         LET old == rateLimitStore[k]
             new == rateLimitStore'[k] IN
         /\ (new.present /\ (~old.present \/ new.resetTime # old.resetTime)) =>
              /\ seq' = seq + 1 /\ lastReq'.key = k
              /\ ~old.present \/ old.resetTime < rnow
              /\ new.count = 1
              /\ new.resetTime = rnow + options[lastReq'.bucket].windowSeconds * 1000
              /\ lastRes'.nextCalls = 1 /\ lastRes'.status # 429
              /\ new.resetTime >= highReset[k]
         /\ (old.present /\ ~new.present) => old.resetTime < rnow
      ]_vars

\* a request has replaced an expired record by a fresh window
C9_Witness ==
    /\ Answered /\ lastReq.replaced
    /\ rateLimitStore[lastReq.key].count = 1
    /\ rateLimitStore[lastReq.key].resetTime > lastReq.at
    /\ highReset[lastReq.key] = rateLimitStore[lastReq.key].resetTime

\* C10: X-RateLimit-Remaining is max(0, maxRequests - count); a request over
\* the limit gets 429, Retry-After equal to the body's retryAfter, the least
\* number of seconds reaching resetTime, and no call of next(); a request
\* within the limit gets exactly one call of next() and no 429.
C10_Response ==
    Answered =>
        LET max == options[lastReq.bucket].maxRequests
            left == max - lastReq.count
            wait == lastReq.resetTime - lastReq.at IN
        /\ lastRes.remaining >= 0
        /\ lastRes.remaining = (IF left > 0 THEN left ELSE 0)
        /\ lastReq.count > max =>
             /\ lastRes.status = 429 /\ lastRes.nextCalls = 0
             /\ lastRes.retryAfterHeader = lastRes.retryAfter
             /\ lastRes.retryAfter * 1000 >= wait
             /\ (lastRes.retryAfter - 1) * 1000 < wait
        /\ lastReq.count <= max =>
             /\ lastRes.status # 429 /\ lastRes.nextCalls = 1
             /\ lastRes.retryAfterHeader = -1

\* a request was rejected half a second before its window ends
C10_Witness ==
    /\ Answered /\ lastRes.status = 429 /\ lastRes.nextCalls = 0
    /\ lastReq.resetTime - lastReq.at = StepMs
    /\ lastRes.retryAfter = 1 /\ lastRes.remaining = 0

\* C11: no span of at most windowSeconds holds more than 2 x maxRequests
\* admissions of one (bucket, identity) pair: of any 2 x maxRequests + 1
\* consecutive admissions, the last is more than windowSeconds after the first.
C11_BurstBound ==
    \A b \in Buckets, k \in Keys :
        LET log == admitted[b][k] IN
        Len(log) = 2 * options[b].maxRequests + 1
        => log[Len(log)] - log[1] > options[b].windowSeconds * 1000

-----------------------------------------------------------------------------
(* Claims about the image URL validator *)

UrlDone == urlCall.pc = "done"

\* the text is a URL with scheme http or https, in any case
HttpUrl(u) == u.form = "url" /\ u.scheme \in {"http", "https", "HTTP"}

\* the host, in lower case, is an allow-listed domain or a subdomain of one
AllowListed(u) ==
    \E d \in TRUSTED_IMAGE_DOMAINS :
        \/ LowerHost(u.host) = d
        \/ \E n \in 1..Len(u.host) : SubSeq(LowerHost(u.host), n + 1, Len(u.host)) = d

UrlReturned == urlCall.outcome.kind = "returned" /\ urlCall.outcome.value # NoUrl

\* the parts of C12 that hold for every input
UrlContract ==
    /\ UrlReturned =>
         /\ HttpUrl(urlCall.url)
         /\ urlCall.allowUntrusted \/ AllowListed(urlCall.url)
         /\ urlCall.outcome.value.scheme = "https"
         /\ urlCall.outcome.value.host = LowerHost(urlCall.url.host)
    /\ (urlCall.url.form \in {"garbage", "url"} /\ ~HttpUrl(urlCall.url)) =>
         urlCall.outcome = Thrown("InvalidImageUrlError")
    /\ (HttpUrl(urlCall.url) /\ ~urlCall.allowUntrusted /\ ~AllowListed(urlCall.url)) =>
         urlCall.outcome = Thrown("UntrustedImageDomainError")

\* C12 as stated: a URL is returned only for an http(s) URL on an allowed host
\* (or with allowUntrusted), always with scheme https; every input that is not
\* an http(s) URL fails with InvalidImageUrlError, and an http(s) URL on a
\* disallowed host with allowUntrusted = false fails with
\* UntrustedImageDomainError.
C12_Original ==
    UrlDone =>
        /\ UrlContract
        /\ ~HttpUrl(urlCall.url) => urlCall.outcome = Thrown("InvalidImageUrlError")

\* C12 amended: the same, except that an absent, empty or white-space-only
\* input returns undefined without an error.
C12_ValidateImageUrl ==
    UrlDone =>
        /\ UrlContract
        /\ urlCall.url.form \in {"undefined", "empty", "blank"} =>
             urlCall.outcome = Returned(NoUrl)

\* an http URL on a subdomain of an allow-listed domain, written in upper
\* case and surrounded by white space, was returned with scheme https
C12_Witness ==
    /\ UrlDone /\ UrlReturned
    /\ urlCall.url.scheme = "HTTP" /\ urlCall.url.padded /\ ~urlCall.allowUntrusted
    /\ urlCall.url.host = <<"Images", "UNSPLASH", "com">>
    /\ urlCall.outcome.value.scheme = "https"

-----------------------------------------------------------------------------
(* Claims about addSlidesToPresentation *)

\* the requests have been compiled
Compiled == run.pc \in {"batch", "notesGet", "notesInsert", "returned"}

HasReturned == run.pc = "returned"

NumSlides == Len(slideContents)

\* the slide (counted from 0) a compiled request belongs to
SlideOf(o) == IF o.op = "createImage" THEN o.page[2] ELSE o.objectId[2]

\* the compiled requests of the slide with index i (counted from 0)
RequestsOf(i) ==
    LET Belongs(o) == o.op # "deleteObject" /\ SlideOf(o) = i IN
    SelectSeq(run.allRequests, Belongs)

\* the image URL fails validation: malformed, not http(s), or on a host that
\* is not allowed
ImageRejected(slide) ==
    LET u == slide.imageUrl IN
    \/ u.form = "garbage"
    \/ u.form = "url" /\ ~HttpUrl(u)
    \/ HttpUrl(u) /\ ~createOptions.allowUntrustedImages /\ ~AllowListed(u)

ImageAccepted(slide) ==
    HttpUrl(slide.imageUrl) /\ (createOptions.allowUntrustedImages \/ AllowListed(slide.imageUrl))

\* localhost, loopback and private IPv4 addresses
PrivateHost(u) ==
    /\ u.form = "url"
    /\ \/ LowerHost(u.host) = <<"localhost">>
       \/ Len(u.host) = 4 /\ u.host[1] \in {"127", "10"}
       \/ Len(u.host) = 4 /\ u.host[1] = "192" /\ u.host[2] = "168"

\* C13: no createImage request of a submitted batch carries a URL whose host
\* is localhost or a private or loopback address, whatever allowUntrustedImages.
C13_NoPrivateImage ==
    \A k \in 1..Len(run.submissions) :
        LET batch == run.batches[run.submissions[k].batch + 1] IN
        \A n \in 1..Len(batch) :
            batch[n].op = "createImage" => ~PrivateHost(batch[n].arg)

\* the requests of slide i are createSlide and three requests per text field
TextRequestsKept(i) ==
    LET reqs == RequestsOf(i - 1)
        Named(op, f) == { n \in 1..Len(reqs) :
                            reqs[n].op = op /\ reqs[n].objectId = <<f, i - 1>> } IN
    /\ Cardinality(Named("createSlide", "slide")) = 1
    /\ \A k \in 1..Len(Fields) :
         \A op \in {"createShape", "insertText", "updateTextStyle"} :
            Cardinality(Named(op, Fields[k])) =
                IF Fields[k] \in slideContents[i].present THEN 1 ELSE 0

ImageRequests(i) ==
    LET reqs == RequestsOf(i - 1) IN { n \in 1..Len(reqs) : reqs[n].op = "createImage" }

\* C14: a failed image validation does not abort the run; the slide is
\* compiled with its other fields and no createImage, the other slides keep
\* their requests and images, and all batches are submitted.
C14_ImageDropped ==
    /\ run.error \notin {"InvalidImageUrlError", "UntrustedImageDomainError",
                         "ImageInsertionError"}
    /\ Compiled =>
         \A i \in 1..NumSlides :
            /\ TextRequestsKept(i)
            /\ ImageRejected(slideContents[i]) => ImageRequests(i) = {}
            /\ ImageAccepted(slideContents[i]) => Cardinality(ImageRequests(i)) = 1
            /\ Len(RequestsOf(i - 1)) =
                 1 + 3 * Cardinality(slideContents[i].present) + Cardinality(ImageRequests(i))
    /\ HasReturned => Len(run.submissions) = Len(run.batches)

\* a run returned for a slide with a title and a rejected image followed by a
\* slide with an accepted image
C14_Witness ==
    /\ HasReturned /\ NumSlides = 2
    /\ ImageRejected(slideContents[1]) /\ "title" \in slideContents[1].present
    /\ ImageAccepted(slideContents[2])
    /\ \A k \in 1..Len(run.submissions) : run.submissions[k].ok

\* C15: the returned warnings hold a warning for every slide whose image
\* failed validation and was dropped.
C15_RemovalRecorded ==
    HasReturned =>
        \A i \in 1..NumSlides :
            ImageRejected(slideContents[i]) =>
                \E n \in 1..Len(run.outcome.warnings) :
                    /\ run.outcome.warnings[n].index = i - 1
                    /\ run.outcome.warnings[n].kind \notin {"batch", "notes"}

\* the slides whose estimated request count exceeds twice the ceiling
TooLarge == { i \in 1..NumSlides : RequestCount(slideContents[i]) > 2 * ceiling }

\* C16: a slide estimated above 2 x MAX_REQUESTS_PER_SLIDE does not stop the
\* run; it is not compiled, its index is in failedSlides and successCount
\* leaves it out.
C16_TooLargeSkipped ==
    /\ run.error # "BatchSizeExceededError"
    /\ Compiled => \A i \in TooLarge : RequestsOf(i - 1) = << >>
    /\ HasReturned =>
         /\ \A i \in TooLarge :
              \E n \in 1..Len(run.outcome.failedSlides) : run.outcome.failedSlides[n] = i - 1
         /\ run.outcome.successCount <= NumSlides - Cardinality(TooLarge)

\* the object ids the spec gives the requests of the slides from number i on
RECURSIVE FieldIds(_, _)
FieldIds(k, i) ==
    IF k > Len(Fields) THEN << >>
    ELSE (IF Fields[k] \in run.validatedSlides[i].present
          THEN << <<Fields[k], i - 1>>, <<Fields[k], i - 1>>, <<Fields[k], i - 1>> >>
          ELSE << >>) \o FieldIds(k + 1, i)

RECURSIVE IdsFrom(_)
IdsFrom(i) ==
    IF i > Len(run.validatedSlides) THEN << >>
    ELSE << <<"slide", i - 1>> >> \o FieldIds(1, i)
         \o (IF run.validatedSlides[i].imageUrl = NoUrl THEN << >> ELSE << NoId >>)
         \o IdsFrom(i + 1)

CompiledIds ==
    LET reqs == LET Slides(o) == o.op # "deleteObject" IN SelectSeq(run.allRequests, Slides) IN
    [n \in 1..Len(reqs) |-> reqs[n].objectId]

Creates == { n \in 1..Len(run.allRequests) :
               run.allRequests[n].op \in {"createSlide", "createShape"} }

\* C17: compiling again gives the same requests; the object ids are those
\* made of the field kind and the slide index; no two create requests share
\* an object id.
C17_Deterministic ==
    Compiled =>
        /\ AllRequests(run.firstSlideId, run.validatedSlides, createOptions.colorTheme)
             = run.allRequests
        /\ CompiledIds = IdsFrom(1)
        /\ \A m, n \in Creates :
             m # n => run.allRequests[m].objectId # run.allRequests[n].objectId

\* two slides with a title were compiled with a theme
C17_Witness ==
    /\ Compiled /\ NumSlides = 2 /\ createOptions.colorTheme = "blue"
    /\ "title" \in slideContents[1].present /\ "title" \in slideContents[2].present
    /\ Cardinality(Creates) >= 4

RECURSIVE Concat(_, _)
Concat(ss, k) == IF k > Len(ss) THEN << >> ELSE ss[k] \o Concat(ss, k + 1)

\* the batches submitted so far are the first ones, in order, once each
SubmittedInOrder ==
    /\ Len(run.submissions) <= Len(run.batches)
    /\ \A k \in 1..Len(run.submissions) : run.submissions[k].batch = k - 1

\* C18: n requests are cut into ceil(n / 100) batches, all of 100 requests
\* but the last, which has 1 to 100; the batches in order make up the request
\* list; each is submitted once, in order, and a run that returns has
\* submitted them all.
C18_Batches ==
    Compiled =>
        LET n == Len(run.allRequests)
            nb == Len(run.batches) IN
        /\ nb = (n + 99) \div 100
        /\ \A k \in 1..nb : Len(run.batches[k]) = IF k < nb THEN 100 ELSE n - 100 * (nb - 1)
        /\ nb > 0 => Len(run.batches[nb]) \in 1..100
        /\ Concat(run.batches, 1) = run.allRequests
        /\ SubmittedInOrder
        /\ HasReturned => Len(run.submissions) = nb

\* a run returned after three batches of 100, 100 and fewer requests
C18_Witness ==
    /\ HasReturned /\ Len(run.batches) = 3 /\ Len(run.submissions) = 3
    /\ Len(run.batches[1]) = 100 /\ Len(run.batches[2]) = 100
    /\ Len(run.batches[3]) < 100

FailedBatches == { k \in 1..Len(run.submissions) : ~run.submissions[k].ok }

\* the batch (counted from 1) holding request number n
BatchOf(n) == (n - 1) \div 100 + 1

\* the slides all of whose requests went into batches that succeeded
SlidesDelivered ==
    { i \in 1..NumSlides :
        \A n \in 1..Len(run.allRequests) :
            (run.allRequests[n].op # "deleteObject" /\ SlideOf(run.allRequests[n]) = i - 1)
            => BatchOf(n) \notin FailedBatches }

\* C19: whichever batches fail, every batch is submitted once, each failed
\* batch leaves exactly one warning with its index, and the outcome reports
\* as successful the slides compiled into batches that succeeded.
C19_BatchFailureIsolated ==
    HasReturned =>
        LET ws == run.outcome.warnings IN
        /\ Len(run.submissions) = Len(run.batches) /\ SubmittedInOrder
        /\ \A k \in 1..Len(run.batches) :
             Cardinality({ n \in 1..Len(ws) : ws[n] = Warning("batch", k - 1) })
               = IF k \in FailedBatches THEN 1 ELSE 0
        /\ \A i \in SlidesDelivered :
             \A n \in 1..Len(run.outcome.failedSlides) : run.outcome.failedSlides[n] # i - 1
        /\ run.outcome.successCount >= Cardinality(SlidesDelivered)

\* a run returned after the second of three batches failed
C19_Witness ==
    /\ HasReturned /\ Len(run.submissions) = 3
    /\ run.submissions[1].ok /\ ~run.submissions[2].ok /\ run.submissions[3].ok
    /\ SlidesDelivered # {} /\ SlidesDelivered # 1..NumSlides

\* the slides with notes, by index, from slide number i on
RECURSIVE WithNotes(_)
WithNotes(i) ==
    IF i > NumSlides THEN << >>
    ELSE (IF slideContents[i].notes THEN << i - 1 >> ELSE << >>) \o WithNotes(i + 1)

NotesWarnings(ws) == LET IsNotes(w) == w.kind = "notes" IN SelectSeq(ws, IsNotes)

InNotesLoop == run.pc \in {"notesGet", "notesInsert"}

\* C20: a step of the speaker notes loop never aborts the run and never
\* changes failedSlides; it appends at most one warning, for the slide at
\* hand; a run that returns has attempted the notes of every slide that has
\* notes, has at most one notes warning per slide, and reports the
\* successCount and failedSlides it had before the loop.
C20_NotesFailureIsolated ==
    /\ [][InNotesLoop =>
            /\ run'.pc # "aborted"
            /\ run'.failedSlides = run.failedSlides
            /\ \/ run'.warnings = run.warnings
               \/ run'.warnings = Append(run.warnings, Warning("notes", run.i - 1))
            /\ run'.pc = "returned" =>
                 /\ run'.outcome.failedSlides = run.failedSlides
                 /\ run'.outcome.successCount = NumSlides - Len(run.failedSlides)
         ]_vars
    /\ [](HasReturned =>
            /\ run.notesAttempts = WithNotes(1)
            /\ \A i \in 1..NumSlides :
                 Cardinality({ n \in 1..Len(run.outcome.warnings) :
                                 run.outcome.warnings[n] = Warning("notes", i - 1) }) <= 1)

\* the notes of the first slide failed and those of the second were attempted
C20_Witness ==
    /\ HasReturned /\ NumSlides = 2
    /\ run.notesAttempts = <<0, 1>>
    /\ NotesWarnings(run.outcome.warnings) = << Warning("notes", 0) >>
    /\ run.outcome.successCount = 2 /\ run.outcome.failedSlides = << >>

\* the submission step has been reached and the run has not returned
Submitting == run.pc \in {"batch", "notesGet", "notesInsert"}

IsPrefix(s, t) == Len(s) <= Len(t) /\ SubSeq(t, 1, Len(s)) = s

\* C21: from the submission step on, no step throws and no warning is lost;
\* a run that returns gives successCount, failedSlides and the warnings of
\* every failed batch and failed notes attempt; and when every call settles
\* the run returns.
C21_SoftAfterSubmission ==
    /\ [][Submitting =>
            /\ run'.pc # "aborted" /\ run'.error = "none"
            /\ IsPrefix(run.warnings, run'.warnings)
         ]_vars
    /\ [](HasReturned =>
            /\ run.outcome.successCount \in 0..NumSlides
            /\ run.outcome.failedSlides = run.failedSlides
            /\ run.outcome.warnings = run.warnings
            /\ Len(run.outcome.warnings) >= Cardinality(FailedBatches)
            /\ \A k \in FailedBatches :
                 \E n \in 1..Len(run.outcome.warnings) :
                    run.outcome.warnings[n] = Warning("batch", k - 1))
    /\ [](run.pc = "aborted" => run.calls \in { << >>, << Call("presentations.get", 0) >> })
    /\ (Submitting ~> HasReturned)

\* a run returned after every batch and every notes attempt failed
C21_Witness ==
    /\ HasReturned /\ NumSlides = 2
    /\ Len(run.submissions) >= 1 /\ FailedBatches = 1..Len(run.submissions)
    /\ Len(run.notesAttempts) = 2 /\ Len(NotesWarnings(run.outcome.warnings)) = 2
    /\ Len(run.outcome.warnings) = Len(run.submissions) + 2

\* the run's call of getOAuth2Client
RunAuth == callers[RunCaller]

\* the credential the run was called with fails: a token is missing, or the
\* refresh it needed was rejected
CredentialFailed ==
    /\ RunAuth.pc # "idle"
    /\ \/ ~HasTokens(RunAuth.user)
       \/ /\ needsTokenRefresh(RunAuth.user.googleTokenExpiry, RunAuth.callNow)
          /\ RunAuth.prom # 0
          /\ promises[RunAuth.prom].state = "rejected"

NothingProduced ==
    /\ run.calls = << >> /\ run.validatedSlides = << >> /\ run.allRequests = << >>
    /\ run.batches = << >> /\ run.submissions = << >> /\ run.notesAttempts = << >>
    /\ run.outcome = NoOutcome

\* C22: when the credential fails, getOAuth2Client throws GoogleAuthError
\* (token missing) or TokenExpiredError (refresh rejected), the only step the
\* run then takes is to fail with that error, and no API call has been
\* issued and nothing validated or compiled; no API call is issued before
\* getOAuth2Client has returned.
C22_CredentialFailFast ==
    /\ [](CredentialFailed =>
            /\ RunAuth.pc = "failed"
            /\ RunAuth.err = IF HasTokens(RunAuth.user) THEN "TokenExpiredError"
                              ELSE "GoogleAuthError"
            /\ run.pc \in {"auth", "aborted"}
            /\ run.pc = "aborted" => run.error = RunAuth.err
            /\ NothingProduced)
    /\ [](run.pc = "auth" => NothingProduced)
    /\ [](run.calls # << >> => RunAuth.pc = "done")
    /\ [][(CredentialFailed /\ run' # run) =>
            run'.pc = "aborted" /\ run'.error = RunAuth.err]_vars

\* a run failed with TokenExpiredError after the refresh it joined was
\* rejected
C22_Witness ==
    /\ CredentialFailed /\ HasTokens(RunAuth.user) /\ ~RunAuth.started
    /\ run.pc = "aborted" /\ run.error = "TokenExpiredError"

\* the run awaits the answer to the last call of run.calls
Awaiting == run.pc \in {"get", "batch", "notesGet", "notesInsert"}

BatchCalls == LET IsBatch(c) == c.api = "batchUpdate" IN SelectSeq(run.calls, IsBatch)

NotesCalls ==
    LET IsNotes(c) == c.api \in {"notes presentations.get", "notes batchUpdate"} IN
    SelectSeq(run.calls, IsNotes)

\* call b may be the call issued next after call a
Follows(a, b) ==
    CASE b.api = "batchUpdate" ->
            \/ a.api = "presentations.get" /\ b.arg = 0
            \/ a.api = "batchUpdate" /\ b.arg = a.arg + 1
      [] b.api = "notes presentations.get" ->
            \/ a.api \in {"presentations.get", "batchUpdate"}
            \/ a.api \in {"notes presentations.get", "notes batchUpdate"} /\ b.arg > a.arg
      [] b.api = "notes batchUpdate" ->
            a.api = "notes presentations.get" /\ a.arg = b.arg
      [] OTHER -> FALSE

RECURSIVE FieldSteps(_, _)
FieldSteps(k, i) ==
    IF k > 5 THEN << >>
    ELSE LET f == <<"title", "subtitle", "text", "bullets", "questions">>[k] IN
         (IF f \in run.validatedSlides[i].present
          THEN << <<"createShape", <<f, i - 1>> >>, <<"insertText", <<f, i - 1>> >>,
                  <<"updateTextStyle", <<f, i - 1>> >> >>
          ELSE << >>) \o FieldSteps(k + 1, i)

SlideSteps(i) ==
    << <<"createSlide", <<"slide", i - 1>> >> >> \o FieldSteps(1, i)
    \o (IF run.validatedSlides[i].imageUrl = NoUrl THEN << >>
        ELSE << <<"createImage", NoId>> >>)

RECURSIVE StepsFrom(_)
StepsFrom(i) ==
    IF i > Len(run.validatedSlides) THEN << >> ELSE SlideSteps(i) \o StepsFrom(i + 1)

\* the compiled requests after the deleteObject, as operation and object id
CompiledSteps ==
    LET reqs == LET Slides(o) == o.op # "deleteObject" IN SelectSeq(run.allRequests, Slides) IN
    [n \in 1..Len(reqs) |-> <<reqs[n].op, reqs[n].objectId>>]

\* the object a request needs to exist: the shape it writes to or styles, the
\* slide it puts a shape or image on
Needs(o) ==
    IF o.op \in {"insertText", "updateTextStyle"} THEN o.objectId
    ELSE IF o.op \in {"createShape", "createImage"} THEN o.page
    ELSE NoId

\* C25: the compiled requests are, slide after slide, one createSlide, then
\* createShape, insertText, updateTextStyle on one object id for each present
\* field in the order title, subtitle, text, bullets, questions, then one
\* createImage if the slide has an image URL: 1 + 3 x fields + image requests
\* per slide, contiguous, and every request comes after the request creating
\* the object it refers to.
C25_EmissionOrder ==
    Compiled =>
        /\ CompiledSteps = StepsFrom(1)
        /\ \A i \in 1..NumSlides :
             Len(RequestsOf(i - 1)) =
                1 + 3 * Cardinality(run.validatedSlides[i].present)
                  + (IF run.validatedSlides[i].imageUrl = NoUrl THEN 0 ELSE 1)
        /\ \A m, n \in 1..Len(run.allRequests) :
             (m < n /\ run.allRequests[m].op # "deleteObject"
                    /\ run.allRequests[n].op # "deleteObject")
             => SlideOf(run.allRequests[m]) <= SlideOf(run.allRequests[n])
        /\ \A n \in 1..Len(run.allRequests) :
             Needs(run.allRequests[n]) # NoId =>
                \E m \in 1..(n - 1) :
                    /\ run.allRequests[m].op \in {"createSlide", "createShape"}
                    /\ run.allRequests[m].objectId = Needs(run.allRequests[n])

\* a slide with all five fields and an image and a slide with a title and
\* an image were compiled
C25_Witness ==
    /\ Compiled /\ NumSlides = 2
    /\ Cardinality(run.validatedSlides[1].present) = 5
    /\ run.validatedSlides[1].imageUrl # NoUrl
    /\ run.validatedSlides[2].present = {"title"}
    /\ run.validatedSlides[2].imageUrl # NoUrl
    /\ Len(run.allRequests) \in {22, 23}

Deletes == { n \in 1..Len(run.allRequests) : run.allRequests[n].op = "deleteObject" }

\* C26: when the fetched deck has a first slide, the compiled requests hold
\* one deleteObject, for that slide, as the first request of the first
\* batch and before every createSlide; when the deck has no slide they hold
\* no deleteObject.
C26_DefaultSlideDeleted ==
    Compiled =>
        IF run.firstSlideId # NoId
        THEN /\ Deletes = {1}
             /\ run.allRequests[1].objectId = run.firstSlideId
             /\ run.batches # << >>
             /\ run.batches[1][1] = run.allRequests[1]
             /\ \A k \in 1..Len(run.batches) : \A n \in 1..Len(run.batches[k]) :
                  run.batches[k][n].op = "deleteObject" => k = 1 /\ n = 1
             /\ \A n \in 1..Len(run.allRequests) :
                  run.allRequests[n].op = "createSlide" => n > 1
        ELSE /\ Deletes = {}
             /\ \A k \in 1..Len(run.batches) : \A n \in 1..Len(run.batches[k]) :
                  run.batches[k][n].op # "deleteObject"

\* the default slide of a deck was deleted ahead of two new slides
C26_Witness ==
    /\ HasReturned /\ NumSlides = 2 /\ run.firstSlideId = DefaultSlide
    /\ run.submissions # << >> /\ run.submissions[1].ok
    /\ run.batches[1][1].op = "deleteObject" /\ run.batches[1][2].op = "createSlide"

\* every slide: any of the five text fields, any image URL, notes or none
AnySlide ==
    { Slide(present, u, n) :
        present \in SUBSET {"title", "subtitle", "text", "bullets", "questions"},
        u \in ImageUrls, n \in BOOLEAN }

\* C28: with MAX_REQUESTS_PER_SLIDE = 10 the estimate of every slide is at
\* most 18, below the threshold of 20, so validateSlideContent raises
\* BatchSizeExceededError for no deck.
C28_EstimateBelowThreshold ==
    ceiling = 10 =>
        /\ run.pc = "auth" =>
              \A slide \in AnySlide :
                 RequestCount(slide) <= 18 /\ ~ContentTooLarge(<<slide>>, ceiling)
        /\ \A i \in 1..NumSlides : RequestCount(slideContents[i]) <= 18
        /\ ~ContentTooLarge(slideContents, ceiling)
        /\ run.error # "BatchSizeExceededError"

\* a deck with a slide estimated at 18 requests passed validateSlideContent
C28_Witness ==
    /\ ceiling = 10 /\ run.pc = "get"
    /\ \E i \in 1..NumSlides : RequestCount(slideContents[i]) = 18

\* C29: every returned outcome has successCount + |failedSlides| equal to
\* the number of input slides, with failedSlides empty and successCount the
\* number of input slides, whichever batches and notes insertions failed.
C29_OutcomeCounts ==
    HasReturned =>
        /\ run.outcome.successCount + Len(run.outcome.failedSlides) = NumSlides
        /\ run.outcome.failedSlides = << >>
        /\ run.outcome.successCount = NumSlides

\* a run returned two slides as successful after its only batch and the
\* notes of a slide failed
C29_Witness ==
    /\ HasReturned /\ NumSlides = 2 /\ run.outcome.successCount = 2
    /\ run.submissions # << >> /\ FailedBatches = 1..Len(run.submissions)
    /\ run.batchSuccessCount = 0
    /\ NotesWarnings(run.outcome.warnings) # << >>

-----------------------------------------------------------------------------
(* Further claims about the rate limiter *)

\* a cleanup step deleted the record of key k
Swept(k) == rateLimitStore[k].present /\ ~rateLimitStore'[k].present

\* C23: every request gets the response (status, remaining, reset, retry
\* after, call of next) it would get had the cleanup never run, and the
\* cleanup deletes no record whose window has not ended.
C23_SweepUnobservable ==
    /\ [](lastRes = unswept.res)
    /\ [](\A k \in Keys :
            \/ rateLimitStore[k] = unswept.store[k]
            \/ ~rateLimitStore[k].present /\ Expired(unswept.store[k], rnow))
    /\ [][\A k \in Keys : Swept(k) => rateLimitStore[k].resetTime < rnow]_vars

\* an admitted request found no record where, without the cleanup, it would
\* have replaced an expired one
C23_Witness ==
    /\ unswept.replaced /\ ~lastReq.replaced /\ lastReq.created
    /\ lastRes.nextCalls = 1 /\ lastRes.remaining = options[lastReq.bucket].maxRequests - 1

\* the step is a request of key k passing through a limiter
RequestOf(k) == seq' = seq + 1 /\ lastReq'.key = k

\* C30: a request arriving while its key's window has not ended leaves
\* resetTime as it is and adds one to count, also when it is rejected; the
\* first request arriving after resetTime, however many were rejected
\* before, is admitted; a request changes no other key's record.
C30_WindowNotExtended ==
    [][\A k \in Keys : RequestOf(k) =>
          LET old == unswept.store[k]
              new == rateLimitStore'[k] IN
          /\ (old.present /\ rnow <= old.resetTime) =>
                /\ rateLimitStore[k] = old
                /\ new.resetTime = old.resetTime
                /\ new.count = old.count + 1
          /\ (old.present /\ rnow > old.resetTime) =>
                /\ lastRes'.status # 429 /\ lastRes'.nextCalls = 1
                /\ new.count = 1 /\ new.resetTime > rnow
          /\ \A other \in Keys \ {k} : rateLimitStore'[other] = rateLimitStore[other]
    ]_vars

\* a request was admitted after the end of a window in which requests of
\* its key had been rejected
C30_Witness ==
    /\ unswept.exceeded /\ lastRes.nextCalls = 1 /\ lastReq.count = 1
    /\ lastReq.resetTime > lastReq.at

-----------------------------------------------------------------------------
(* Further claims about the token manager *)

\* the step was taken by a call for principal p or by a refresh of p
CallerMoved(p) ==
    \E c \in Callers : callers'[c] # callers[c] /\ callers'[c].p = p

PromiseMoved(p) ==
    \/ Len(promises') > Len(promises) /\ promises'[Len(promises')].p = p
    \/ \E id \in PromiseIds : promises'[id] # promises[id] /\ promises[id].p = p

\* C27: a caller awaits or has joined only a refresh of its own principal; a
\* step of a call or refresh of one principal leaves the lock, the provider
\* calls and the stored credential of every other principal as they are and
\* moves no caller of another principal; a caller that needs a refresh and
\* finds no lock of its own principal starts one at once, whatever is in
\* flight for others.
C27_PrincipalsIndependent ==
    /\ [](\A c \in Callers :
            callers[c].prom # 0 => promises[callers[c].prom].p = callers[c].p)
    /\ [](\A q \in Principals :
            refreshLocks[q] # NoLock => promises[refreshLocks[q]].p = q)
    /\ [][\A q \in Principals :
            (\E p \in Principals \ {q} : CallerMoved(p) \/ PromiseMoved(p)) =>
                /\ refreshLocks'[q] = refreshLocks[q]
                /\ providerCalls'[q] = providerCalls[q]
                /\ profile'[q] = profile[q]
                /\ ~CallerMoved(q) /\ ~PromiseMoved(q)
         ]_vars
    /\ [][\A p, q \in Principals :
            p # q => ~(refreshLocks'[p] # refreshLocks[p] /\ refreshLocks'[q] # refreshLocks[q])
         ]_vars
    /\ [][\A c \in Callers :
            (callers[c].pc = "idle" /\ callers'[c].pc # "idle"
             /\ HasTokens(callers'[c].user)
             /\ needsTokenRefresh(callers'[c].user.googleTokenExpiry, now)
             /\ refreshLocks[callers'[c].p] = NoLock)
            => callers'[c].started /\ providerCalls'[callers'[c].p] = providerCalls[callers'[c].p] + 1
         ]_vars

\* refreshes of both principals are in flight, each awaited by its own caller
C27_Witness ==
    /\ InFlight("u1") # {} /\ InFlight("u2") # {}
    /\ \E c, d \in Callers :
         /\ callers[c].p = "u1" /\ callers[c].pc = "await"
         /\ callers[d].p = "u2" /\ callers[d].pc = "await" /\ callers[d].started

====
